---------------------------- MODULE Spec2Model ----------------------------
(***************************************************************************)
(* A model of the NEET-PG MCQ Telegram bot: the question store (the file   *)
(* neet-pg-mcqs.csv), the webhook handler with its answer-callback and     *)
(* admin-message handlers (src/api/webhook.py), the scheduled dispatch     *)
(* handler (src/send-mcq.py) and the MCQManager utility                    *)
(* (src/mcq_manager.py).                                                   *)
(*                                                                         *)
(* Text (callback payloads, message text, the cells of the file) is a      *)
(* sequence of one-character strings, so that split / strip / int() /      *)
(* upper() are computed as Python computes them.                           *)
(***************************************************************************)
EXTENDS Integers, Sequences, FiniteSets, TLC

\* ------------------------------------------------------------------- state

VARIABLES
    store,      \* the file neet-pg-mcqs.csv
    posted,     \* the rows posted to the channel so far (kept by no handler)
    last,       \* the invocation in progress and what it did; idle between two
    ingestions  \* admin ingestions running side by side, each at its own line
                \* of process_csv_data; none most of the time

vars == <<store, posted, last, ingestions>>

\* ------------------------------------------------------------------ bounds

\* Largest number of records in the store file.
MaxStore == 2

\* Largest number of lines in an admin message.
MaxLines == 2

\* ------------------------------------------------------- Python text helpers

Digits == <<"0", "1", "2", "3", "4", "5", "6", "7", "8", "9">>

LowerLetters == <<"a", "b", "c", "d", "e", "f", "g", "h", "i", "j", "k", "l", "m",
                  "n", "o", "p", "q", "r", "s", "t", "u", "v", "w", "x", "y", "z">>

UpperLetters == <<"A", "B", "C", "D", "E", "F", "G", "H", "I", "J", "K", "L", "M",
                  "N", "O", "P", "Q", "R", "S", "T", "U", "V", "W", "X", "Y", "Z">>

\* str.upper() on one character.
UpperChar(c) ==
    IF \E i \in 1..26 : LowerLetters[i] = c
    THEN UpperLetters[CHOOSE i \in 1..26 : LowerLetters[i] = c]
    ELSE c

\* str.upper()
Upper(s) == [i \in 1..Len(s) |-> UpperChar(s[i])]

\* ord(c) - ord("A") for a one-character string over the letters; other
\* characters of the model's alphabet (digits, punctuation, lower case) lie
\* outside 0..25, which is all the code's column lookup needs to know.
OrdFromA(c) ==
    IF \E i \in 1..26 : UpperLetters[i] = c
    THEN (CHOOSE i \in 1..26 : UpperLetters[i] = c) - 1
    ELSE -1

IsSpace(c) == c \in {" ", "\n"}

RECURSIVE LStrip(_)
LStrip(s) == IF s # <<>> /\ IsSpace(Head(s)) THEN LStrip(Tail(s)) ELSE s

RECURSIVE RStrip(_)
RStrip(s) ==
    IF s # <<>> /\ IsSpace(s[Len(s)]) THEN RStrip(SubSeq(s, 1, Len(s) - 1)) ELSE s

\* str.strip()
Strip(s) == RStrip(LStrip(s))

RECURSIVE Split(_, _)
\* str.split(sep) for a one-character separator: the fields between the
\* separators, so that "" splits to [""].  Computed by halves: the last field
\* of the left half and the first field of the right half are one field.
Split(s, sep) ==
    IF Len(s) = 0 THEN <<<<>>>>
    ELSE IF Len(s) = 1 THEN (IF s[1] = sep THEN <<<<>>, <<>>>> ELSE <<s>>)
    ELSE LET l == Split(SubSeq(s, 1, Len(s) \div 2), sep)
             r == Split(SubSeq(s, (Len(s) \div 2) + 1, Len(s)), sep)
         IN  SubSeq(l, 1, Len(l) - 1) \o <<l[Len(l)] \o r[1]>> \o Tail(r)

RECURSIVE Join(_, _)
\* sep.join(parts)
Join(parts, sep) ==
    IF parts = <<>> THEN <<>>
    ELSE IF Len(parts) = 1 THEN parts[1]
    ELSE parts[1] \o <<sep>> \o Join(Tail(parts), sep)

IsDigit(c) == \E i \in 1..10 : Digits[i] = c

DigitVal(c) == (CHOOSE i \in 1..10 : Digits[i] = c) - 1

\* The digits of an integer literal: surrounding whitespace and one sign removed.
Unsigned(s) ==
    LET t == Strip(s)
    IN  IF t # <<>> /\ Head(t) \in {"+", "-"} THEN Tail(t) ELSE t

\* Whether int(s) returns (otherwise it raises ValueError).
IsIntLiteral(s) ==
    /\ Unsigned(s) # <<>>
    /\ \A i \in 1..Len(Unsigned(s)) : IsDigit(Unsigned(s)[i])

RECURSIVE NatVal(_)
NatVal(ds) ==
    IF ds = <<>> THEN 0
    ELSE 10 * NatVal(SubSeq(ds, 1, Len(ds) - 1)) + DigitVal(ds[Len(ds)])

\* int(s), for s with IsIntLiteral(s).
ParseInt(s) ==
    LET t == Strip(s)
    IN  IF t # <<>> /\ Head(t) = "-" THEN 0 - NatVal(Unsigned(s)) ELSE NatVal(Unsigned(s))

RECURSIVE NatToStr(_)
NatToStr(n) ==
    IF n < 10 THEN <<Digits[n + 1]>>
    ELSE NatToStr(n \div 10) \o <<Digits[(n % 10) + 1]>>

\* str(n) of an integer, as an f-string formats a question number.
IntToStr(n) == IF n < 0 THEN <<"-">> \o NatToStr(0 - n) ELSE NatToStr(n)

\* ------------------------------------------------------------- the store

\* The twelve columns of neet-pg-mcqs.csv, in file order.
Columns == <<"Year", "QuestionNumber", "Subject", "Topic", "Question", "Option1",
             "Option2", "Option3", "Option4", "Answer", "Explanation", "Source">>

\* Lines of the file, cell by cell.
\* The example of the admin help: question 1, answer B.
RowHeart ==
    [Year |-> <<"2", "0", "2", "3">>,
     QuestionNumber |-> <<"1">>,
     Subject |-> <<"A", "n", "a", "t", "o", "m", "y">>,
     Topic |-> <<"H", "e", "a", "r", "t">>,
     Question |-> <<"W", "h", "i", "c", "h", " ", "c", "h", "a", "m", "b", "e", "r", " ", "p", "u", "m", "p", "s", " ", "b", "l", "o", "o", "d", " ", "t", "o", " ", "l", "u", "n", "g", "s", "?">>,
     Option1 |-> <<"R", "i", "g", "h", "t", " ", "a", "t", "r", "i", "u", "m">>,
     Option2 |-> <<"R", "i", "g", "h", "t", " ", "v", "e", "n", "t", "r", "i", "c", "l", "e">>,
     Option3 |-> <<"L", "e", "f", "t", " ", "a", "t", "r", "i", "u", "m">>,
     Option4 |-> <<"L", "e", "f", "t", " ", "v", "e", "n", "t", "r", "i", "c", "l", "e">>,
     Answer |-> <<"B">>,
     Explanation |-> <<"R", "i", "g", "h", "t", " ", "v", "e", "n", "t", "r", "i", "c", "l", "e", " ", "p", "u", "m", "p", "s", " ", "b", "l", "o", "o", "d", " ", "t", "o", " ", "l", "u", "n", "g", "s">>,
     Source |-> <<"t", "e", "x", "t", "b", "o", "o", "k", ".", "p", "d", "f">>]

\* A question number written with a leading zero and a lower-case answer key.
RowNerve ==
    [Year |-> <<"2", "0", "2", "2">>,
     QuestionNumber |-> <<"0", "7">>,
     Subject |-> <<"P", "h", "y", "s", "i", "o", "l", "o", "g", "y">>,
     Topic |-> <<"N", "e", "r", "v", "e">>,
     Question |-> <<"R", "e", "s", "t", "i", "n", "g", " ", "p", "o", "t", "e", "n", "t", "i", "a", "l", "?">>,
     Option1 |-> <<"S", "o", "d", "i", "u", "m">>,
     Option2 |-> <<"C", "a", "l", "c", "i", "u", "m">>,
     Option3 |-> <<"C", "h", "l", "o", "r", "i", "d", "e">>,
     Option4 |-> <<"P", "o", "t", "a", "s", "s", "i", "u", "m">>,
     Answer |-> <<"d">>,
     Explanation |-> <<"K", " ", "e", "f", "f", "l", "u", "x">>,
     Source |-> <<"n", "o", "t", "e", "s", ".", "p", "d", "f">>]

\* A second record numbered 1 (the code does not enforce uniqueness).
RowLiver ==
    [Year |-> <<"2", "0", "2", "1">>,
     QuestionNumber |-> <<"1">>,
     Subject |-> <<"P", "a", "t", "h", "o", "l", "o", "g", "y">>,
     Topic |-> <<"L", "i", "v", "e", "r">>,
     Question |-> <<"M", "a", "l", "l", "o", "r", "y", " ", "b", "o", "d", "i", "e", "s", "?">>,
     Option1 |-> <<"A", "l", "c", "o", "h", "o", "l">>,
     Option2 |-> <<"H", "e", "p", " ", "A">>,
     Option3 |-> <<"H", "e", "p", " ", "E">>,
     Option4 |-> <<"A", "b", "s", "c", "e", "s", "s">>,
     Answer |-> <<"A">>,
     Explanation |-> <<"F", "i", "l", "a", "m", "e", "n", "t", "s">>,
     Source |-> <<"r", "e", "v", "i", "e", "w", ".", "p", "d", "f">>]

FileRows == {RowHeart, RowNerve, RowLiver}

RECURSIVE SeqsUpTo(_, _)
\* The sequences over S of length at most n.
SeqsUpTo(S, n) ==
    IF n = 0 THEN {<<>>}
    ELSE LET shorter == SeqsUpTo(S, n - 1)
         IN  shorter \cup {Append(q, x) : q \in {r \in shorter : Len(r) = n - 1}, x \in S}

\* The file neet-pg-mcqs.csv: absent (or unreadable), or a header line and rows.
NoFile == [exists |-> FALSE, rows |-> <<>>]

\* The files: absent, or at most MaxStore rows, no row twice.
Files ==
    {NoFile} \cup
    {[exists |-> TRUE, rows |-> q] :
        q \in {f \in SeqsUpTo(FileRows, MaxStore) :
                  \A i, j \in 1..Len(f) : f[i] = f[j] => i = j}}

\* pd.read_csv: raises when the file is absent; otherwise the rows, the Question
\* Number column read as integers (every cell of the column is an integer
\* literal) and the text columns as they stand.
read_csv(file) ==
    [ok |-> file.exists,
     df |-> [i \in 1..Len(file.rows) |->
               [file.rows[i] EXCEPT !.QuestionNumber = ParseInt(file.rows[i].QuestionNumber)]]]

\* df[df['Question Number'] == n]
RECURSIVE RowsNumbered(_, _)
RowsNumbered(df, n) ==
    IF df = <<>> THEN <<>>
    ELSE IF Head(df).QuestionNumber = n THEN <<Head(df)>> \o RowsNumbered(Tail(df), n)
    ELSE RowsNumbered(Tail(df), n)

\* question_data[f'Option {k}']
OptionColumn(question_data, k) ==
    CASE k = 1 -> question_data.Option1
      [] k = 2 -> question_data.Option2
      [] k = 3 -> question_data.Option3
      [] k = 4 -> question_data.Option4

\* ------------------------------------------------------- outbound messages

NoMsg == [kind |-> "none"]
InvalidCallbackMsg == [kind |-> "invalid_callback"]
NotFoundMsg == [kind |-> "question_not_found"]
ErrorProcessingAnswerMsg == [kind |-> "error_processing_answer"]

\* One call of the Bot API made by a handler; ok is whether it returned.
ApiCall(api, msg, calls, fail) ==
    [api |-> api, msg |-> msg, ok |-> (Len(calls) + 1) \notin fail]

\* Which calls of one invocation fail: the positions, in call order.  No handler
\* makes more than three calls.
FaultPlans == SUBSET {1, 2, 3}

\* -------------------------------------------------- handle_answer_callback

AnswerPrefix == <<"a", "n", "s", "w", "e", "r">>

\* An outcome of the try block before its edit: an exception, or the message
\* to edit in; and the number of reads of the store.
Raises(reads) == [exc |-> TRUE, msg |-> NoMsg, reads |-> reads]

Edits(msg, reads) == [exc |-> FALSE, msg |-> msg, reads |-> reads]

\* A comparison that tells the cases apart.
IsCorrectCaseSensitive(selected_option, correct_answer) == selected_option = correct_answer

\* selected_option.upper() == correct_answer.upper()
IsCorrect(selected_option, correct_answer) == Upper(selected_option) = Upper(correct_answer)

\* The offset from "A" without the + 1.
OptionIndexFromZero(correct_answer) == OrdFromA(Upper(correct_answer)[1])

\* ord(correct_answer.upper()) - ord("A") + 1, for a one-character key.
OptionIndex(correct_answer) == OrdFromA(Upper(correct_answer)[1]) + 1

\* The text of the feedback message, by its parts.
FeedbackMsg(is_correct, correct_answer, question_data, k) ==
    [kind |-> "feedback", is_correct |-> is_correct,
     correct_answer |-> Upper(correct_answer),
     correct_option_text |-> OptionColumn(question_data, k),
     subject |-> question_data.Subject, topic |-> question_data.Topic,
     explanation |-> question_data.Explanation, source |-> question_data.Source]

\* The feedback for the record found.  ord() raises TypeError unless the key is
\* one character, and the column lookup raises KeyError unless it is an option.
ComposeFeedback(question_data, selected_option, correct_answer) ==
    IF Len(correct_answer) # 1 THEN Raises(1)
    ELSE IF OptionIndex(correct_answer) \notin 1..4 THEN Raises(1)
    ELSE Edits(FeedbackMsg(IsCorrect(selected_option, correct_answer), correct_answer,
                           question_data, OptionIndex(correct_answer)), 1)

\* question_row.empty, and question_row.iloc[0] otherwise.
LookUp(question_row, parts) ==
    IF question_row = <<>> THEN Edits(NotFoundMsg, 1)
    ELSE ComposeFeedback(question_row[1], parts[3], parts[4])

\* The evaluation once the payload is split and accepted: the store is read,
\* then the id parsed (int() raises ValueError) and the record looked up.
EvaluateAnswer(parts, file) ==
    IF ~read_csv(file).ok THEN Raises(1)
    ELSE IF ~IsIntLiteral(parts[2]) THEN Raises(1)
    ELSE LookUp(RowsNumbered(read_csv(file).df, ParseInt(parts[2])), parts)

\* A check that lets longer payloads through.
AtLeastFourFields(parts) == Len(parts) >= 4 /\ parts[1] = AnswerPrefix

\* Whether the payload passes the protocol check.
WellFormedPayload(parts) == ~(Len(parts) # 4 \/ parts[1] # AnswerPrefix)

CheckPayload(parts, file) ==
    IF ~WellFormedPayload(parts) THEN Edits(InvalidCallbackMsg, 0)
    ELSE EvaluateAnswer(parts, file)

\* The body of the try block up to its edit.
CallbackBody(callback_data, file) ==
    IF callback_data = <<>> THEN Edits(InvalidCallbackMsg, 0)
    ELSE CheckPayload(Split(callback_data, "_"), file)

\* The except block: one more edit; the handler raises when that fails too.
CallbackExcept(tried, reads, file, fail) ==
    LET apology == ApiCall("editMessageText", ErrorProcessingAnswerMsg, tried, fail)
    IN  [calls |-> Append(tried, apology), reads |-> reads, raised |-> ~apology.ok,
         file |-> file]

\* The try block: the body, its edit, and the except block on an exception.
CallbackTry(body, answered, file, fail) ==
    LET edit == ApiCall("editMessageText", body.msg, <<answered>>, fail)
    IN  IF body.exc THEN CallbackExcept(<<answered>>, body.reads, file, fail)
        ELSE IF ~edit.ok THEN CallbackExcept(<<answered, edit>>, body.reads, file, fail)
        ELSE [calls |-> <<answered, edit>>, reads |-> body.reads, raised |-> FALSE,
              file |-> file]

\* The whole handler: query.answer() outside the try block, then the try
\* block.  raised: an exception leaves the handler.
handle_answer_callback(callback_data, file, fail) ==
    LET answered == ApiCall("answerCallbackQuery", NoMsg, <<>>, fail)
    IN  IF ~answered.ok
        THEN [calls |-> <<answered>>, reads |-> 0, raised |-> TRUE, file |-> file]
        ELSE CallbackTry(CallbackBody(callback_data, file), answered, file, fail)

\* ------------------------------------------------------- process_csv_data

\* A line needs at least this many fields.
RequiredFields == 11

\* The number of names the unpacking assignment binds.
UnpackTargets == 12

\* The number of fields row[:11] keeps.
KeptFields == 11

AnswerKeys == {<<"A">>, <<"B">>, <<"C">>, <<"D">>}

\* row[:n]
Slice(row, n) == SubSeq(row, 1, IF Len(row) < n THEN Len(row) ELSE n)

\* csv.reader on one line that holds no quote character: the fields between
\* the commas.
CsvRow(line) == Split(line, ",")

TooFewFieldsMsg(line_num, n) == [kind |-> "line_too_few_fields", line |-> line_num, fields |-> n]
EmptyRequiredMsg(line_num) == [kind |-> "line_empty_required", line |-> line_num]
BadAnswerMsg(line_num) == [kind |-> "line_bad_answer", line |-> line_num]
NoValidQuestionsMsg == [kind |-> "no_valid_questions"]
ErrorCsvMsg == [kind |-> "error_processing_csv"]
AddedMsg(n, total, new_questions) ==
    [kind |-> "added", added |-> n, total |-> total,
     listed |-> [i \in 1..(IF n < 5 THEN n ELSE 5) |-> new_questions[i][2]]]

\* Whether the unpacking of values into the assignment's names succeeds;
\* otherwise Python raises ValueError.
Unpacks(values) == Len(values) = UnpackTargets

\* How the for loop ends: in a reply about a line, in an exception, or with
\* the rows to add.
Rejects(msg) == [kind |-> "reply", msg |-> msg, new_questions |-> <<>>]

RECURSIVE ParseLines(_, _, _)

\* The loop body for a line that is not blank, parsed to row.
ParseRow(row, csv_lines, line_num, new_questions) ==
    IF Len(row) < RequiredFields THEN Rejects(TooFewFieldsMsg(line_num, Len(row)))
    ELSE IF ~Unpacks(Slice(row, KeptFields))
    THEN [kind |-> "raise", msg |-> NoMsg, new_questions |-> <<>>]
    ELSE IF \E i \in 1..11 : row[i] = <<>> THEN Rejects(EmptyRequiredMsg(line_num))
    ELSE IF Upper(row[10]) \notin AnswerKeys THEN Rejects(BadAnswerMsg(line_num))
    ELSE ParseLines(csv_lines, line_num + 1, Append(new_questions, Slice(row, KeptFields)))

\* The for loop over the lines, from line line_num on.
ParseLines(csv_lines, line_num, new_questions) ==
    IF line_num > Len(csv_lines)
    THEN [kind |-> "parsed", msg |-> NoMsg, new_questions |-> new_questions]
    ELSE IF Strip(csv_lines[line_num]) = <<>>
    THEN ParseLines(csv_lines, line_num + 1, new_questions)
    ELSE ParseRow(CsvRow(csv_lines[line_num]), csv_lines, line_num, new_questions)

\* The line of the file for a kept row q; a row of eleven fields has no Source.
FileRowOf(q) ==
    [Year |-> q[1], QuestionNumber |-> q[2], Subject |-> q[3], Topic |-> q[4],
     Question |-> q[5], Option1 |-> q[6], Option2 |-> q[7], Option3 |-> q[8],
     Option4 |-> q[9], Answer |-> q[10], Explanation |-> q[11],
     Source |-> IF Len(q) >= 12 THEN q[12] ELSE <<>>]

\* to_csv of a loaded row: the question number is written as str() of the integer.
WrittenRow(r) == [r EXCEPT !.QuestionNumber = IntToStr(r.QuestionNumber)]

\* pd.concat([df_existing, df_new]) followed by to_csv: the file's new rows.
CombinedRows(df_existing, new_questions) ==
    [i \in 1..Len(df_existing) |-> WrittenRow(df_existing[i])]
        \o [i \in 1..Len(new_questions) |-> FileRowOf(new_questions[i])]

\* An outcome that leaves the file without its rows.
LeavesTruncated(exc, msg, reads, file) ==
    [exc |-> exc, msg |-> msg, reads |-> reads,
     file |-> [exists |-> file.exists, rows |-> <<>>]]

\* An outcome of process_csv_data's try block before its reply: as Raises and
\* Edits, with the file as it is left.
Leaves(exc, msg, reads, file) == [exc |-> exc, msg |-> msg, reads |-> reads, file |-> file]

\* The rows are named by the twelve columns (df_new.columns = columns raises
\* ValueError when the widths differ), appended to the loaded table and the
\* whole table written back.
AppendRows(new_questions, df_existing, file) ==
    IF Len(new_questions[1]) # Len(Columns) THEN Leaves(TRUE, NoMsg, 1, file)
    ELSE Leaves(FALSE,
                AddedMsg(Len(new_questions), Len(df_existing) + Len(new_questions),
                         new_questions),
                1,
                [exists |-> TRUE, rows |-> CombinedRows(df_existing, new_questions)])

\* What follows the for loop.
IngestParsed(parsed, file) ==
    IF parsed.kind = "reply" THEN Leaves(FALSE, parsed.msg, 0, file)
    ELSE IF parsed.kind = "raise" THEN Leaves(TRUE, NoMsg, 0, file)
    ELSE IF parsed.new_questions = <<>> THEN Leaves(FALSE, NoValidQuestionsMsg, 0, file)
    ELSE IF ~read_csv(file).ok THEN Leaves(TRUE, NoMsg, 1, file)
    ELSE AppendRows(parsed.new_questions, read_csv(file).df, file)

\* The body of the try block up to its reply.
IngestBody(csv_text, file) ==
    IngestParsed(ParseLines(Split(Strip(csv_text), "\n"), 1, <<>>), file)

\* The except block of a try block whose calls so far are tried: the reply of
\* on_error; the handler raises when that fails too.
ReplyExcept(tried, on_error, reads, file, fail) ==
    LET apology == ApiCall("sendMessage", on_error, tried, fail)
    IN  [calls |-> Append(tried, apology), reads |-> reads, raised |-> ~apology.ok,
         file |-> file]

\* try: body, then its reply; except: the reply of on_error.
TryReply(body, on_error, fail) ==
    LET reply == ApiCall("sendMessage", body.msg, <<>>, fail)
    IN  IF body.exc THEN ReplyExcept(<<>>, on_error, body.reads, body.file, fail)
        ELSE IF ~reply.ok THEN ReplyExcept(<<reply>>, on_error, body.reads, body.file, fail)
        ELSE [calls |-> <<reply>>, reads |-> body.reads, raised |-> FALSE,
              file |-> body.file]

process_csv_data(csv_text, file, fail) ==
    TryReply(IngestBody(csv_text, file), ErrorCsvMsg, fail)

\* --------------------------------------------------- handle_admin_message

ADMIN_CHAT_ID == "admin"

AddMcqHelpMsg == [kind |-> "add_mcq_help"]
AdminHelpMsg == [kind |-> "admin_help"]
ErrorStatsMsg == [kind |-> "error_getting_stats"]
ErrorMessageMsg == [kind |-> "error_processing_message"]

StatsMsg(df) ==
    [kind |-> "stats", total_questions |-> Len(df),
     subjects |-> Cardinality({df[i].Subject : i \in 1..Len(df)}),
     topics |-> Cardinality({df[i].Topic : i \in 1..Len(df)}),
     years |-> {df[i].Year : i \in 1..Len(df)}]

\* str.startswith
StartsWith(s, prefix) == Len(s) >= Len(prefix) /\ SubSeq(s, 1, Len(prefix)) = prefix

AddMcqCommand == <<"/", "a", "d", "d", "_", "m", "c", "q">>
StatsCommand == <<"/", "s", "t", "a", "t", "s">>

\* ',' in message_text and len(message_text.split(',')) >= 11
LooksLikeCsv(message_text) ==
    /\ \E i \in 1..Len(message_text) : message_text[i] = ","
    /\ Len(Split(message_text, ",")) >= 11

\* A handler that returns at once.
Untouched(file) == [calls |-> <<>>, reads |-> 0, raised |-> FALSE, file |-> file]

\* A reply outside any try block.
Reply(msg, file, fail) ==
    LET reply == ApiCall("sendMessage", msg, <<>>, fail)
    IN  [calls |-> <<reply>>, reads |-> 0, raised |-> ~reply.ok, file |-> file]

\* The /stats branch: the store is read and counted inside a try block.
Stats(file, fail) ==
    TryReply(Leaves(~read_csv(file).ok,
                    IF read_csv(file).ok THEN StatsMsg(read_csv(file).df) ELSE NoMsg,
                    1, file),
             ErrorStatsMsg, fail)

\* The except block of the last try block, around process_csv_data.
AdminExcept(inner, fail) ==
    IF ~inner.raised THEN inner
    ELSE ReplyExcept(inner.calls, ErrorMessageMsg, inner.reads, inner.file, fail)

\* The handler from the stripped text on.
AdminText(message_text, file, fail) ==
    IF StartsWith(message_text, AddMcqCommand) THEN Reply(AddMcqHelpMsg, file, fail)
    ELSE IF StartsWith(message_text, StatsCommand) THEN Stats(file, fail)
    ELSE IF ~LooksLikeCsv(message_text)
    THEN TryReply(Leaves(FALSE, AdminHelpMsg, 0, file), ErrorMessageMsg, fail)
    ELSE AdminExcept(process_csv_data(message_text, file, fail), fail)

handle_admin_message(chat_id, text, file, fail) ==
    IF text = <<>> THEN Untouched(file)
    ELSE IF chat_id # ADMIN_CHAT_ID THEN Untouched(file)
    ELSE AdminText(Strip(text), file, fail)

\* ------------------------------------------------------------ send-mcq.py

\* f"answer_{question_data['Question Number']}_{letter}_{question_data['Answer']}"
CallbackData(question_data, letter) ==
    AnswerPrefix \o <<"_">> \o IntToStr(question_data.QuestionNumber)
                 \o <<"_">> \o letter \o <<"_">> \o question_data.Answer

ButtonLetters == <<"A", "B", "C", "D">>

\* The inline keyboard: one row of four buttons.
AnswerKeyboard(question_data) ==
    [i \in 1..4 |-> [text |-> ButtonLetters[i],
                     callback_data |-> CallbackData(question_data, <<ButtonLetters[i]>>)]]

create_mcq_message(question_data) ==
    [kind |-> "mcq", subject |-> question_data.Subject, topic |-> question_data.Topic,
     year |-> question_data.Year, number |-> question_data.QuestionNumber,
     question |-> question_data.Question,
     options |-> <<question_data.Option1, question_data.Option2,
                   question_data.Option3, question_data.Option4>>,
     keyboard |-> AnswerKeyboard(question_data)]

\* A selection that avoids the rows posted before.
select_unposted_question(df) == {i \in 1..Len(df) : df[i] \notin posted}

\* df.sample(n=1): the positions it may return; none for an empty table, where
\* sample raises.
select_random_question(df) == 1..Len(df)

\* How the dispatch handler's try block ends.
DispatchEnds(raised, status, calls, reads, question, file) ==
    [raised |-> raised, status |-> status, calls |-> calls, reads |-> reads,
     file |-> file, question |-> question]

\* create_mcq_message and send_telegram_message for the question selected.
Post(question_data, file, fail) ==
    LET sent == ApiCall("sendMessage", create_mcq_message(question_data), <<>>, fail)
    IN  IF ~sent.ok THEN DispatchEnds(TRUE, 0, <<sent>>, 1, <<>>, file)
        ELSE DispatchEnds(FALSE, 200, <<sent>>, 1, <<question_data>>, file)

\* The try block from the loaded table on, for the position the sample returns.
Select(df, pick, file, fail) ==
    IF df = <<>> THEN DispatchEnds(FALSE, 400, <<>>, 1, <<>>, file)
    ELSE IF pick \notin select_random_question(df)
    THEN DispatchEnds(TRUE, 0, <<>>, 1, <<>>, file)
    ELSE Post(df[pick], file, fail)

\* The try block of the dispatch handler.
DispatchTry(request, file, pick, fail) ==
    IF ~request.authorized /\ request.method = "POST" /\ request.method # "GET"
    THEN DispatchEnds(FALSE, 401, <<>>, 0, <<>>, file)
    ELSE IF ~read_csv(file).ok THEN DispatchEnds(TRUE, 0, <<>>, 1, <<>>, file)
    ELSE Select(read_csv(file).df, pick, file, fail)

\* The except block: the exception becomes the response 500.
Except500(run) == IF run.raised THEN [run EXCEPT !.raised = FALSE, !.status = 500] ELSE run

\* The handler: the try block, and the except block.
dispatch_handler(request, file, pick, fail) ==
    Except500(DispatchTry(request, file, pick, fail))

\* ---------------------------------------------------------- mcq_manager.py

required_fields == <<"QuestionNumber", "Subject", "Topic", "Question", "Option1",
                     "Option2", "Option3", "Option4", "Answer", "Explanation">>

\* A candidate is a mapping: row holds the values, absent the keys it lacks and
\* nan the keys whose value is NaN.
\* field not in question_data or pd.isna(question_data[field])
MissingOrNaN(question_data, f) == f \in question_data.absent \/ f \in question_data.nan

\* The required fields that fail the check, by position.
FailingFields(question_data) ==
    {i \in 1..Len(required_fields) : MissingOrNaN(question_data, required_fields[i])}

validate_question_data(question_data) ==
    IF FailingFields(question_data) # {}
    THEN [valid |-> FALSE, error |-> "missing_or_invalid_field",
          field |-> required_fields[CHOOSE i \in FailingFields(question_data) :
                                        \A j \in FailingFields(question_data) : i <= j]]
    ELSE IF Upper(question_data.row.Answer) \notin AnswerKeys
    THEN [valid |-> FALSE, error |-> "invalid_answer_format", field |-> "Answer"]
    ELSE [valid |-> TRUE, error |-> "none", field |-> "none"]

\* get_random_question raises ValueError on an empty table and otherwise samples
\* one row of a copy of the table (exclude_recent changes nothing): the
\* positions it may return.
get_random_question(df) == 1..Len(df)

create_answer_keyboard(question_data) == AnswerKeyboard(question_data)

\* ------------------------------------------------------- webhook handler

WelcomeMsg == [kind |-> "welcome"]

StartCommand == <<"/", "s", "t", "a", "r", "t">>

\* start(): one reply, outside any try block.
start(file, fail) == Reply(WelcomeMsg, file, fail)

\* filters.COMMAND: the text begins with a bot command.
IsCommand(text) == text # <<>> /\ Head(text) = "/"

\* create_application's handlers: /start to start, callback queries to
\* handle_answer_callback, text that is no command to handle_admin_message;
\* an update no handler takes is dropped.
Route(update, file, fail) ==
    IF update.kind = "callback_query"
    THEN handle_answer_callback(update.data, file, fail)
    ELSE IF update.kind = "message" /\ IsCommand(update.text)
    THEN (IF Split(update.text, " ")[1] = StartCommand THEN start(file, fail)
          ELSE Untouched(file))
    ELSE IF update.kind = "message" /\ update.text # <<>>
    THEN handle_admin_message(update.chat_id, update.text, file, fail)
    ELSE Untouched(file)

\* How the webhook handler's try block ends, after the handler outcome r.
WebhookEnds(raised, status, r) ==
    [raised |-> raised, status |-> status, calls |-> r.calls, reads |-> r.reads,
     file |-> r.file]

\* process_update returns, whatever the handler did; the library may instead
\* let a handler's exception out: the ways the call may end.
Processed(routed) ==
    IF routed.raised THEN {WebhookEnds(FALSE, 200, routed), WebhookEnds(TRUE, 0, routed)}
    ELSE {WebhookEnds(FALSE, 200, routed)}

\* The try block of handler(request): the ways it may end.
WebhookTry(request, file, fail) ==
    IF request.method # "POST" THEN {WebhookEnds(FALSE, 405, Untouched(file))}
    ELSE IF ~request.json THEN {WebhookEnds(TRUE, 0, Untouched(file))}
    ELSE Processed(Route(request.update, file, fail))

\* The try block with no except block around it.
handler_without_except(request, file, fail) == WebhookTry(request, file, fail)

\* The handler: the try block, and the except block that answers 500.
webhook_handler(request, file, fail) ==
    {Except500(run) : run \in WebhookTry(request, file, fail)}

\* ------------------------------------------------------------------ inputs

\* Payloads a client may send back that no keyboard of the bot carries.
TamperedPayloads ==
    {<<>>,
     <<"a", "n", "s", "w", "e", "r">>,
     <<"a", "n", "s", "w", "e", "r", "_", "1", "_", "A">>,
     <<"a", "n", "s", "w", "e", "r", "_", "1", "_", "A", "_", "B", "_", "C">>,
     <<"r", "e", "p", "l", "y", "_", "1", "_", "A", "_", "B">>,
     <<"A", "n", "s", "w", "e", "r", "_", "1", "_", "A", "_", "B">>,
     <<"a", "n", "s", "w", "e", "r", "_", "9", "_", "A", "_", "B">>,
     <<"a", "n", "s", "w", "e", "r", "_", "a", "b", "c", "_", "A", "_", "B">>,
     <<"a", "n", "s", "w", "e", "r", "_", "_", "A", "_", "B">>,
     <<"a", "n", "s", "w", "e", "r", "_", "1", "_", "b", "_", "B">>,
     <<"a", "n", "s", "w", "e", "r", "_", "1", "_", "B", "_", "b">>,
     <<"a", "n", "s", "w", "e", "r", "_", "7", "_", "x", "_", "D">>,
     <<"a", "n", "s", "w", "e", "r", "_", "1", "_", "E", "_", "E">>,
     <<"a", "n", "s", "w", "e", "r", "_", "1", "_", "A", "_">>,
     <<"a", "n", "s", "w", "e", "r", "_", "1", "_", "A", "B", "_", "A", "B">>}

\* The rows of FileRows as read_csv loads them.
LoadedRows == {read_csv([exists |-> TRUE, rows |-> <<r>>]).df[1] : r \in FileRows}

\* Payloads of the keyboards the bot posts for the rows a file may hold; the
\* file of the moment need not hold the row any more.
EmittedPayloads ==
    {AnswerKeyboard(r)[i].callback_data : r \in LoadedRows, i \in 1..4}

Payloads == TamperedPayloads \cup EmittedPayloads

\* Lines of an admin message: a full line, a line without Source and with a
\* lower-case answer, a line of three fields, a line with an empty Question, a
\* line whose answer is E, and a blank line.
LineFull == <<"2", "3", ",", "5", ",", "S", ",", "T", ",", "Q", ",", "w", ",", "x", ",", "y", ",", "z", ",", "C", ",", "X", ",", "s">>
LineNoSource == <<"2", "3", ",", "6", ",", "S", ",", "T", ",", "Q", ",", "w", ",", "x", ",", "y", ",", "z", ",", "c", ",", "X">>
LineShort == <<"2", "3", ",", "5", ",", "S">>
LineEmptyQuestion == <<"2", "3", ",", "5", ",", "S", ",", "T", ",", ",", "w", ",", "x", ",", "y", ",", "z", ",", "C", ",", "X", ",", "s">>
LineBadAnswer == <<"2", "3", ",", "5", ",", "S", ",", "T", ",", "Q", ",", "w", ",", "x", ",", "y", ",", "z", ",", "E", ",", "X", ",", "s">>
LineBlank == <<" ">>

\* The lines batches are made of; the line without Source is sent on its own.
LineKinds == {LineFull, LineShort, LineEmptyQuestion, LineBadAnswer, LineBlank}

\* The example line of the /add_mcq help text.
HelpExampleLine ==
    Join([i \in 1..12 |->
            <<RowHeart.Year, RowHeart.QuestionNumber, RowHeart.Subject, RowHeart.Topic,
              RowHeart.Question, RowHeart.Option1, RowHeart.Option2, RowHeart.Option3,
              RowHeart.Option4, RowHeart.Answer, RowHeart.Explanation, RowHeart.Source>>[i]],
         ",")

Batches == {Join(ls, "\n") : ls \in SeqsUpTo(LineKinds, MaxLines) \ {<<>>}}

PlainTexts == {<<"h", "e", "l", "l", "o">>, <<" ", "/", "s", "t", "a", "t", "s">>, <<"/", "s", "t", "a", "t", "s">>, <<"/", "a", "d", "d", "_", "m", "c", "q">>, <<"/", "s", "t", "a", "r", "t">>, <<>>}

AdminTexts == Batches \cup {HelpExampleLine, LineNoSource} \cup PlainTexts

Messages ==
    {[kind |-> "message", chat_id |-> ADMIN_CHAT_ID, text |-> t] : t \in AdminTexts}
        \cup {[kind |-> "message", chat_id |-> "other", text |-> t] :
                t \in {LineFull, <<"h", "e", "l", "l", "o">>, <<"/", "s", "t", "a", "r", "t">>}}

\* Candidates for MCQManager.validate_question_data.
CandidateRows ==
    {RowHeart, RowNerve,
     [RowHeart EXCEPT !.Answer = <<"E">>],
     [RowHeart EXCEPT !.Question = <<>>],
     [RowHeart EXCEPT !.Year = <<>>],
     [RowHeart EXCEPT !.Question = <<>>, !.Answer = <<"E">>]}

Candidates ==
    {[row |-> r, absent |-> a, nan |-> n] :
        r \in CandidateRows,
        a \in {{}, {"Question"}, {"Year"}, {"Answer"}},
        n \in {{}, {"Question"}}}

DispatchRequests == [method : {"POST", "GET"}, authorized : BOOLEAN]

\* ------------------------------------------------------------ observations

NoResult == [kind |-> "none"]

Idle ==
    [op |-> "idle", input |-> NoResult, before |-> NoFile, calls |-> <<>>, reads |-> 0,
     status |-> 0, escaped |-> FALSE, result |-> NoResult]

\* What one invocation of a handler did, from its outcome r.
Observed(op, input, r, result) ==
    [op |-> op, input |-> input, before |-> store, calls |-> r.calls, reads |-> r.reads,
     status |-> r.status, escaped |-> r.raised, result |-> result]

Init ==
    /\ store \in Files
    /\ posted = {}
    /\ ingestions = <<>>
    /\ last = Idle

\* ----------------------------------------------------------------- actions

\* A webhook delivery of a callback query.
AnswerCallback ==
    /\ last.op = "idle"
    /\ \E data \in Payloads, fail \in FaultPlans :
        \E r \in webhook_handler([method |-> "POST", json |-> TRUE,
                                   update |-> [kind |-> "callback_query", data |-> data]],
                                  store, fail) :
            /\ last' = Observed("callback", [kind |-> "callback_query", data |-> data],
                                r, NoResult)
            /\ store' = r.file
            /\ UNCHANGED <<posted, ingestions>>

\* A webhook delivery of a text message.
TextMessage ==
    /\ last.op = "idle"
    /\ \E update \in Messages, fail \in FaultPlans :
        \E r \in webhook_handler([method |-> "POST", json |-> TRUE, update |-> update],
                                  store, fail) :
            /\ last' = Observed("message", update, r, NoResult)
            /\ store' = r.file
            /\ UNCHANGED <<posted, ingestions>>

\* A webhook request that carries no update: another method, or a body that is
\* no JSON.
BadRequest ==
    /\ last.op = "idle"
    /\ \E method \in {"POST", "GET"}, json \in BOOLEAN :
        \E r \in webhook_handler([method |-> method, json |-> json,
                                   update |-> [kind |-> "none"]], store, {}) :
            /\ method # "POST" \/ ~json
            /\ last' = Observed("bad_request",
                                [kind |-> "request", method |-> method, json |-> json],
                                r, NoResult)
            /\ store' = r.file
            /\ UNCHANGED <<posted, ingestions>>

\* The positions the selection may return for the file; 0 stands for a sample
\* that raises.
Picks(file) ==
    IF read_csv(file).ok /\ select_random_question(read_csv(file).df) # {}
    THEN select_random_question(read_csv(file).df)
    ELSE {0}

\* The scheduled trigger of send-mcq.py.
Dispatch ==
    /\ last.op = "idle"
    /\ \E request \in DispatchRequests, fail \in SUBSET {1}, pick \in Picks(store) :
        \E r \in {dispatch_handler(request, store, pick, fail)} :
            /\ last' = Observed("dispatch",
                                [kind |-> "request", method |-> request.method,
                                 authorized |-> request.authorized],
                                r, [kind |-> "question", question |-> r.question,
                                    again |-> r.question # <<>> /\ r.question[1] \in posted])
            /\ store' = r.file
            /\ posted' = posted \cup {r.question[i] : i \in 1..Len(r.question)}
            /\ UNCHANGED ingestions

\* MCQManager.validate_question_data on a candidate.
ValidateQuestion ==
    /\ last.op = "idle"
    /\ \E candidate \in Candidates :
        last' = [Idle EXCEPT !.op = "validate",
                             !.input = [kind |-> "candidate", candidate |-> candidate],
                             !.before = store,
                             !.result = validate_question_data(candidate)]
    /\ UNCHANGED <<store, posted, ingestions>>

\* MCQManager() followed by get_random_question(): load_data raises when the
\* file cannot be read, get_random_question when the table is empty.
ManagerRandomQuestion ==
    /\ last.op = "idle"
    /\ \E loaded \in {read_csv(store)} :
        IF ~loaded.ok \/ get_random_question(loaded.df) = {}
        THEN last' = [Idle EXCEPT !.op = "get_random_question", !.before = store,
                                  !.reads = 1, !.escaped = TRUE,
                                  !.result = [kind |-> IF loaded.ok THEN "no_mcq_data"
                                                       ELSE "load_error"]]
        ELSE \E pick \in get_random_question(loaded.df) :
                last' = [Idle EXCEPT !.op = "get_random_question", !.before = store,
                                     !.reads = 1,
                                     !.result = [kind |-> "question",
                                                 question |-> <<loaded.df[pick]>>]]
    /\ UNCHANGED <<store, posted, ingestions>>

\* MCQManager.create_answer_keyboard on a row of the loaded table.
ManagerKeyboard ==
    /\ last.op = "idle"
    /\ store.exists
    /\ \E i \in 1..Len(store.rows) :
        \E question_data \in {read_csv(store).df[i]} :
            last' = [Idle EXCEPT !.op = "create_answer_keyboard", !.before = store,
                                 !.input = [kind |-> "question", question |-> <<question_data>>],
                                 !.result = [kind |-> "keyboard",
                                             keyboard |-> create_answer_keyboard(question_data)]]
    /\ UNCHANGED <<store, posted, ingestions>>

\* The invocation is over: the serverless process keeps nothing of it.
Return ==
    /\ last.op \notin {"idle", "ingestions"}
    /\ last' = Idle
    /\ UNCHANGED <<store, posted, ingestions>>

\* ------------------------------------------- ingestions side by side

\* Each webhook delivery runs in a process of its own and the file is not
\* locked, so two runs of process_csv_data may interleave at its reads and
\* writes of the file.  A run is followed line by line: the for loop ("parse"),
\* pd.read_csv ("read"), the concat and to_csv ("write"), the reply ("reply").
IngestionTexts ==
    {LineFull, LineNoSource, HelpExampleLine, LineBadAnswer,
     Join(<<LineFull, LineNoSource>>, "\n")}

\* A run of process_csv_data about to start on csv_text.
Ingestion(csv_text) ==
    [pc |-> "parse", text |-> csv_text, new_questions |-> <<>>, df_existing |-> <<>>,
     msg |-> NoMsg]

\* The for loop, ended as parsed: a rejection, an exception, no question, or
\* the questions to append.
ParseStage(p, parsed) ==
    IF parsed.kind = "reply" THEN [p EXCEPT !.pc = "reply", !.msg = parsed.msg]
    ELSE IF parsed.kind = "raise" THEN [p EXCEPT !.pc = "reply", !.msg = ErrorCsvMsg]
    ELSE IF parsed.new_questions = <<>>
    THEN [p EXCEPT !.pc = "reply", !.msg = NoValidQuestionsMsg]
    ELSE [p EXCEPT !.pc = "read", !.new_questions = parsed.new_questions]

\* df_existing = pd.read_csv('neet-pg-mcqs.csv'), on the file as it is now.
ReadStage(p, file) ==
    IF ~read_csv(file).ok THEN [p EXCEPT !.pc = "reply", !.msg = ErrorCsvMsg]
    ELSE [p EXCEPT !.pc = "write", !.df_existing = read_csv(file).df]

\* The frame of new questions, the concat with the table read earlier and
\* to_csv, ended as appended; the run goes on to its reply.
WriteStage(p, appended) ==
    IF appended.exc THEN [p EXCEPT !.pc = "reply", !.msg = ErrorCsvMsg]
    ELSE [p EXCEPT !.pc = "reply", !.msg = appended.msg]

\* The run after its next line, and the file after it.
IngestionStage(p, file) ==
    CASE p.pc = "parse" ->
            [run |-> ParseStage(p, ParseLines(Split(Strip(p.text), "\n"), 1, <<>>)),
             file |-> file]
      [] p.pc = "read" -> [run |-> ReadStage(p, file), file |-> file]
      [] p.pc = "write" ->
            [run |-> WriteStage(p, AppendRows(p.new_questions, p.df_existing, file)),
             file |-> AppendRows(p.new_questions, p.df_existing, file).file]
      [] p.pc = "reply" -> [run |-> [p EXCEPT !.pc = "done"], file |-> file]

\* Two admin messages that handle_admin_message passes to process_csv_data
\* arrive together.
StartIngestions ==
    /\ last.op = "idle"
    /\ \E pair \in {q \in IngestionTexts \X IngestionTexts :
                        LooksLikeCsv(Strip(q[1])) /\ LooksLikeCsv(Strip(q[2]))} :
        ingestions' = <<Ingestion(Strip(pair[1])), Ingestion(Strip(pair[2]))>>
    /\ last' = [Idle EXCEPT !.op = "ingestions", !.before = store]
    /\ UNCHANGED <<store, posted>>

\* One of the runs executes its next line.
IngestionStep ==
    /\ last.op = "ingestions"
    /\ \E i \in 1..Len(ingestions) :
        /\ ingestions[i].pc # "done"
        /\ \E after \in {IngestionStage(ingestions[i], store)} :
            /\ ingestions' = [ingestions EXCEPT ![i] = after.run]
            /\ store' = after.file
    /\ UNCHANGED <<posted, last>>

\* Both runs have returned.
IngestionsReturn ==
    /\ last.op = "ingestions"
    /\ \A i \in 1..Len(ingestions) : ingestions[i].pc = "done"
    /\ ingestions' = <<>>
    /\ last' = Idle
    /\ UNCHANGED <<store, posted>>

Next ==
    \/ AnswerCallback
    \/ TextMessage
    \/ BadRequest
    \/ Dispatch
    \/ ValidateQuestion
    \/ ManagerRandomQuestion
    \/ ManagerKeyboard
    \/ Return
    \/ StartIngestions
    \/ IngestionStep
    \/ IngestionsReturn

Spec == Init /\ [][Next]_vars

\* --------------------------------------------- ingestion and validation

\* The invocation delivered an admin message that handle_admin_message passed
\* to process_csv_data.
Ingested ==
    /\ last.op = "message"
    /\ last.input.chat_id = ADMIN_CHAT_ID
    /\ last.input.text # <<>>
    /\ ~IsCommand(last.input.text)
    /\ LooksLikeCsv(Strip(last.input.text))

\* The lines of the batch, numbered from 1.
SubmittedLines == Split(Strip(last.input.text), "\n")

\* The three defects of a line, as the specification lists them.
FewFields(line) == Len(Split(line, ",")) < 11

EmptyField(line) == ~FewFields(line) /\ \E i \in 1..11 : Split(line, ",")[i] = <<>>

BadKey(line) == ~FewFields(line) /\ Upper(Split(line, ",")[10]) \notin AnswerKeys

ValidLine(line) == ~FewFields(line) /\ ~EmptyField(line) /\ ~BadKey(line)

\* The numbers of the lines that are neither blank nor valid.
InvalidLines ==
    {i \in 1..Len(SubmittedLines) :
        Strip(SubmittedLines[i]) # <<>> /\ ~ValidLine(SubmittedLines[i])}

FirstInvalid == CHOOSE i \in InvalidLines : \A j \in InvalidLines : i <= j

RejectionKinds == {"line_too_few_fields", "line_empty_required", "line_bad_answer"}

\* C1: all-or-nothing ingestion.  Whenever process_csv_data has processed a
\* batch with an invalid non-blank line, the store is what it was before and
\* the reply to the admin is a rejection naming the number of the first such
\* line.
C1_AllOrNothing ==
    (Ingested /\ InvalidLines # {}) =>
        /\ store = last.before
        /\ last.calls # <<>>
        /\ last.calls[1].msg.kind \in RejectionKinds
        /\ last.calls[1].msg.line = FirstInvalid

\* C1 at work: a valid line followed by a line of three fields; the store is
\* untouched, but the reply is the general CSV error and names no line.
C1_ValidThenShort ==
    /\ Ingested
    /\ SubmittedLines = <<LineFull, LineShort>>
    /\ store = last.before
    /\ last.calls[1].msg = ErrorCsvMsg

\* The record a valid line stands for; Source is optional.
SubmittedRecord(line) == FileRowOf(Split(line, ","))

AllValid == \A i \in 1..Len(SubmittedLines) : ValidLine(SubmittedLines[i])

\* C2: ingestion round trip.  Whenever process_csv_data has processed a batch
\* of N >= 1 lines, all valid, on a readable store, the store holds its old
\* records followed by the N submitted ones, field for field, and the reply
\* reports the new total.
C2_RoundTrip ==
    (Ingested /\ AllValid /\ last.before.exists) =>
        /\ store.exists
        /\ Len(store.rows) = Len(last.before.rows) + Len(SubmittedLines)
        /\ \A i \in 1..Len(last.before.rows) :
              read_csv(store).df[i] = read_csv(last.before).df[i]
        /\ \A i \in 1..Len(SubmittedLines) :
              store.rows[Len(last.before.rows) + i] = SubmittedRecord(SubmittedLines[i])
        /\ last.calls # <<>>
        /\ last.calls[1].msg.kind = "added"
        /\ last.calls[1].msg.total = Len(store.rows)

\* C2 at work: the example line of the /add_mcq help text, sent as it stands
\* to a readable store, is refused with the general CSV error and not stored.
C2_HelpExampleRefused ==
    /\ Ingested
    /\ last.input.text = HelpExampleLine
    /\ last.before.exists
    /\ store = last.before
    /\ last.calls[1].msg = ErrorCsvMsg

\* The candidate of a validate_question_data invocation.
Candidate == last.input.candidate

\* The required fields as the specification lists them.
SpecRequiredFields ==
    {"Year", "QuestionNumber", "Subject", "Topic", "Question", "Option1", "Option2",
     "Option3", "Option4", "Answer", "Explanation"}

\* The required fields a candidate lacks: absent, or the empty string.
Lacking(c) == {f \in SpecRequiredFields : f \in c.absent \/ f \in c.nan \/ c.row[f] = <<>>}

\* C3: answer-key validation.  A candidate with every required field present
\* and non-empty is accepted by validate_question_data exactly when its answer,
\* upper-cased, is one of A, B, C, D, and answer E is refused with the
\* invalid-answer error; and a batch whose first invalid line has only a bad
\* answer key is refused by process_csv_data with the answer-key rejection of
\* that line.
C3_AnswerKey ==
    /\ (last.op = "validate" /\ Lacking(Candidate) = {}) =>
          /\ last.result.valid <=> Upper(Candidate.row.Answer) \in AnswerKeys
          /\ Candidate.row.Answer = <<"E">> => last.result.error = "invalid_answer_format"
    /\ (Ingested /\ InvalidLines # {}
            /\ BadKey(SubmittedLines[FirstInvalid])
            /\ ~EmptyField(SubmittedLines[FirstInvalid])) =>
          /\ last.calls # <<>>
          /\ last.calls[1].msg = BadAnswerMsg(FirstInvalid)

\* C3 at work: a single line whose answer is E gets the general CSV error.
C3_AnswerELine ==
    /\ Ingested
    /\ SubmittedLines = <<LineBadAnswer>>
    /\ last.calls[1].msg = ErrorCsvMsg

\* C4: required-field validation.  validate_question_data refuses every
\* candidate that lacks a required field, with the missing-field error (so
\* before the answer is looked at), naming Question when that is the field
\* lacking; and process_csv_data refuses a batch whose first invalid line has
\* an empty required field with the empty-field rejection of that line.
C4_RequiredFields ==
    /\ (last.op = "validate" /\ Lacking(Candidate) # {}) =>
          /\ ~last.result.valid
          /\ last.result.error = "missing_or_invalid_field"
          /\ Lacking(Candidate) = {"Question"} => last.result.field = "Question"
    /\ (Ingested /\ InvalidLines # {} /\ EmptyField(SubmittedLines[FirstInvalid])) =>
          /\ last.calls # <<>>
          /\ last.calls[1].msg = EmptyRequiredMsg(FirstInvalid)

\* C4 at work: a candidate whose Question is the empty string, nothing else
\* amiss, is accepted.
C4_EmptyQuestionAccepted ==
    /\ last.op = "validate"
    /\ Candidate.row.Question = <<>>
    /\ Lacking(Candidate) = {"Question"}
    /\ Candidate.absent = {} /\ Candidate.nan = {}
    /\ last.result.valid

\* ------------------------------------------------------- answer callbacks

\* The invocation delivered a callback query and query.answer() returned, so
\* that the try block ran and made a first edit (or tried to).
Evaluated == last.op = "callback" /\ Len(last.calls) >= 2

\* The message of the first edit attempted.
FirstEdit == last.calls[2].msg

Payload == last.input.data

PayloadFields == Split(Payload, "_")

\* The payload has the four fields of the protocol.
FourFieldAnswer == Payload # <<>> /\ Len(PayloadFields) = 4 /\ PayloadFields[1] = <<"a", "n", "s", "w", "e", "r">>

\* The records of the store the question id names, in file order.
Resolved ==
    IF last.before.exists /\ IsIntLiteral(PayloadFields[2])
    THEN RowsNumbered(read_csv(last.before).df, ParseInt(PayloadFields[2]))
    ELSE <<>>

\* The callback is told that the answer is correct.
ReportsCorrect == FirstEdit.kind = "feedback" /\ FirstEdit.is_correct

EqualIgnoringCase == Upper(PayloadFields[3]) = Upper(PayloadFields[4])

\* C5 as stated: for every callback whose question id resolves, the answer is
\* reported correct exactly when the selected option and the recorded correct
\* option (both fields of the payload) are equal ignoring case.
C5_AsStated ==
    (Evaluated /\ FourFieldAnswer /\ Resolved # <<>>) =>
        (ReportsCorrect <=> EqualIgnoringCase)

\* C5, amended: for every callback whose question id resolves and whose
\* recorded correct option is one of A, B, C, D in either case, the answer is
\* reported correct exactly when the selected option and the recorded correct
\* option are equal ignoring case; the stored record's answer plays no part.
C5_CaseInsensitive ==
    (Evaluated /\ FourFieldAnswer /\ Resolved # <<>>
        /\ Upper(PayloadFields[4]) \in AnswerKeys) =>
        /\ FirstEdit.kind = "feedback"
        /\ FirstEdit.is_correct <=> EqualIgnoringCase

\* C5 at work: selected b against recorded B is reported correct, for a
\* stored record whose own answer is another letter.
C5_LowerAgainstUpper ==
    /\ Evaluated
    /\ Payload = <<"a", "n", "s", "w", "e", "r", "_", "1", "_", "b", "_", "B">>
    /\ Resolved # <<>>
    /\ Upper(Resolved[1].Answer) # <<"B">>
    /\ ReportsCorrect

\* The option of a record at the position of an upper-case letter.
LetterOption(record, letter) ==
    CASE letter = <<"A">> -> record.Option1
      [] letter = <<"B">> -> record.Option2
      [] letter = <<"C">> -> record.Option3
      [] letter = <<"D">> -> record.Option4

\* C6: for every callback whose question id resolves and whose correct option
\* is one of A, B, C, D in either case, the feedback shows the option of the
\* record found at the position of that letter; on the store holding only the
\* record numbered 1 with second option "Right ventricle", the callback for
\* selection B with answer B reports correct with that text.
C6_CorrectOptionText ==
    /\ (Evaluated /\ FourFieldAnswer /\ Resolved # <<>>
            /\ Upper(PayloadFields[4]) \in AnswerKeys) =>
          /\ FirstEdit.kind = "feedback"
          /\ FirstEdit.correct_option_text
                = LetterOption(Resolved[1], Upper(PayloadFields[4]))
    /\ (Evaluated /\ last.before = [exists |-> TRUE, rows |-> <<RowHeart>>]
            /\ Payload = <<"a", "n", "s", "w", "e", "r", "_", "1", "_", "B", "_", "B">>) =>
          /\ ReportsCorrect
          /\ FirstEdit.correct_option_text = <<"R", "i", "g", "h", "t", " ", "v", "e", "n", "t", "r", "i", "c", "l", "e">>

\* C6 at work: the end-to-end example, the feedback delivered.
C6_RightVentricle ==
    /\ Evaluated
    /\ last.before = [exists |-> TRUE, rows |-> <<RowHeart>>]
    /\ Payload = <<"a", "n", "s", "w", "e", "r", "_", "1", "_", "B", "_", "B">>
    /\ last.calls[2].ok
    /\ FirstEdit.correct_option_text = <<"R", "i", "g", "h", "t", " ", "v", "e", "n", "t", "r", "i", "c", "l", "e">>

\* C7: for every four-field answer callback whose question id names no record
\* of the (readable) store, the callback is told that the question was not
\* found.
C7_NotFound ==
    (Evaluated /\ FourFieldAnswer /\ last.before.exists /\ Resolved = <<>>) =>
        FirstEdit = NotFoundMsg

\* C7 at work: the id abc on a readable store gets the general error.
C7_NonNumericId ==
    /\ Evaluated
    /\ Payload = <<"a", "n", "s", "w", "e", "r", "_", "a", "b", "c", "_", "A", "_", "B">>
    /\ last.before.exists
    /\ FirstEdit = ErrorProcessingAnswerMsg

\* -------------------------------------------------------------- selection

\* The table the invocation loaded, an empty one when the file is absent.
TableBefore == IF last.before.exists THEN read_csv(last.before).df ELSE <<>>

Members(df) == {df[i] : i \in 1..Len(df)}

\* The dispatch request gets past the authorization check.
Admitted == last.input.authorized \/ last.input.method = "GET"

ParsesBack(keyboard, question_data) ==
    \A i \in 1..4 :
        /\ Len(Split(keyboard[i].callback_data, "_")) = 4
        /\ Split(keyboard[i].callback_data, "_")[1] = <<"a", "n", "s", "w", "e", "r">>
        /\ IsIntLiteral(Split(keyboard[i].callback_data, "_")[2])
        /\ ParseInt(Split(keyboard[i].callback_data, "_")[2]) = question_data.QuestionNumber
        /\ Split(keyboard[i].callback_data, "_")[3] = <<(<<"A", "B", "C", "D">>)[i]>>
        /\ Split(keyboard[i].callback_data, "_")[4] = question_data.Answer

ValidQuestion(question_data) == Upper(question_data.Answer) \in AnswerKeys

\* C9: a callback is evaluated (the store read, the answer compared) exactly
\* when its payload has four fields, the first being "answer"; every other
\* payload gets the invalid-callback message and the store is not read; and
\* the payloads of the keyboards create_mcq_message and create_answer_keyboard
\* build for a valid question of the store parse back to its number, the
\* letter and its answer.
C9_PayloadProtocol ==
    /\ (Evaluated /\ ~FourFieldAnswer) =>
          /\ FirstEdit = InvalidCallbackMsg
          /\ last.reads = 0
    /\ (Evaluated /\ FourFieldAnswer) =>
          /\ FirstEdit # InvalidCallbackMsg
          /\ last.reads = 1
    /\ (last.op = "dispatch" /\ last.status = 200
            /\ ValidQuestion(last.result.question[1])) =>
          ParsesBack(last.calls[1].msg.keyboard, last.result.question[1])
    /\ (last.op = "create_answer_keyboard" /\ ValidQuestion(last.input.question[1])) =>
          ParsesBack(last.result.keyboard, last.input.question[1])

\* C9 at work: a payload of five fields is refused and the store not read.
C9_FiveFields ==
    /\ Evaluated
    /\ Payload = <<"a", "n", "s", "w", "e", "r", "_", "1", "_", "A", "_", "B", "_", "C">>
    /\ FirstEdit = InvalidCallbackMsg
    /\ last.calls[2].ok
    /\ last.reads = 0

\* ------------------------------------------------------- error propagation

\* The invocation was one of the webhook handler or the dispatch handler.
Handled == last.op \in {"callback", "message", "bad_request", "dispatch"}

\* C10: every invocation of the webhook handler and of the dispatch handler
\* ends with a response that carries a status code, no exception leaves it,
\* no call of the Bot API is made twice and the store is read at most once.
C10_ErrorPropagation ==
    Handled =>
        /\ ~last.escaped
        /\ last.status \in {200, 400, 401, 405, 500}
        /\ \A i, j \in 1..Len(last.calls) :
              (last.calls[i].api = last.calls[j].api
                  /\ last.calls[i].msg = last.calls[j].msg) => i = j
        /\ last.reads <= 1

\* C10 at work: a callback whose edit fails and whose apology fails too ends
\* with the response 500.
C10_ApologyFails ==
    /\ last.op = "callback"
    /\ Len(last.calls) = 3
    /\ ~last.calls[2].ok
    /\ ~last.calls[3].ok
    /\ last.status = 500
    /\ ~last.escaped

\* ----------------------------------------------------- concurrent writers

\* Two ingestions ran side by side and both have returned.
BothReturned ==
    /\ last.op = "ingestions"
    /\ \A i \in 1..2 : ingestions[i].pc = "done"

\* Every line of the batch is valid.
ValidBatch(text) ==
    \A i \in 1..Len(Split(text, "\n")) : ValidLine(Split(text, "\n")[i])

\* C11: lost update.  Two admin ingestions of valid batches that run side by
\* side on a readable store both report success, and when both read the store
\* before either wrote it, the final store holds the rows read followed by the
\* rows of one of them only.
C11_LostUpdate ==
    (BothReturned /\ last.before.exists
        /\ ValidBatch(ingestions[1].text) /\ ValidBatch(ingestions[2].text)) =>
        /\ \A i \in 1..2 : ingestions[i].msg.kind = "added"
        /\ ingestions[1].df_existing = ingestions[2].df_existing =>
              \E w \in 1..2 :
                  store.rows = CombinedRows(ingestions[w].df_existing,
                                            ingestions[w].new_questions)

\* C11 at work: the help text's example line sent twice at once to a readable
\* store; both runs reply with the general CSV error and the store is as it
\* was.
C11_BothRefused ==
    /\ BothReturned
    /\ last.before.exists
    /\ \A i \in 1..2 : ingestions[i].text = HelpExampleLine
    /\ \A i \in 1..2 : ingestions[i].msg = ErrorCsvMsg
    /\ store = last.before

\* ------------------------------------------------------------ append-only

\* a is a prefix of b.
IsPrefix(a, b) == Len(a) <= Len(b) /\ SubSeq(b, 1, Len(a)) = a

\* The step is the write of an ingestion of an admin message that reports
\* success: a whole invocation, or the write of one of two runs side by side.
SuccessfulIngestion ==
    \/ /\ last'.op = "message"
       /\ last'.input.chat_id = ADMIN_CHAT_ID
       /\ last'.calls # <<>>
       /\ last'.calls[1].msg.kind = "added"
    \/ /\ last.op = "ingestions"
       /\ \E i \in 1..Len(ingestions) :
             ingestions[i].pc = "write" /\ ingestions'[i].msg.kind = "added"

\* C12: in every step the store stays as it is or, in a successful ingestion of
\* an admin message and in no other step, gets rows appended: the rows it held
\* are a prefix of the rows it holds afterwards, none modified or removed.
C12_AppendOnly ==
    [][/\ store' # store =>
             /\ SuccessfulIngestion
             /\ store.exists /\ store'.exists
       /\ IsPrefix(store.rows, store'.rows)]_vars

\* C12 at work: a batch from the admin chat was rejected, and the store, which
\* holds records, is as it was.
C12_RejectedBatchKept ==
    /\ Ingested
    /\ InvalidLines # {}
    /\ last.calls # <<>>
    /\ last.before.rows # <<>>
    /\ store = last.before

=============================================================================
